---- MODULE Spec2Model ----
(***************************************************************************)
(* The signup job queue of test-case-backend: the producer route           *)
(* POST /signup-agent and the status route GET /job-status/:jobId of the   *)
(* queue server, the BullMQ queue 'signup-jobs' between them, and the      *)
(* worker process (worker.cjs) that drives a browser through the signup    *)
(* flow, one account after the other.                                      *)
(*                                                                         *)
(* JavaScript values are records [t, v, s]: t is the type tag, v the       *)
(* numeric payload in tenths (25 is 2.5), s the characters of a string.    *)
(***************************************************************************)
EXTENDS Integers, Sequences, FiniteSets, TLC

(* ------------------------------ bounds -------------------------------- *)
\* Jobs the producer may add in one behaviour.
MaxJobs == 2
\* HTTP requests that may be in flight at the same time.
MaxReq == 1
\* Requests of the knowledge-base routes that may be in flight at the same time.
MaxKbReq == 2
\* Documents that may be uploaded in one behaviour.
MaxDocs == 2

(* ------------------------- JavaScript values --------------------------- *)
Undef == [t |-> "undefined", v |-> 0, s |-> <<>>]
Null == [t |-> "null", v |-> 0, s |-> <<>>]
NaN == [t |-> "nan", v |-> 0, s |-> <<>>]
PosInf == [t |-> "inf", v |-> 0, s |-> <<>>]
NegInf == [t |-> "ninf", v |-> 0, s |-> <<>>]
\* A finite number, given in tenths.
Num(tenths) == [t |-> "number", v |-> tenths, s |-> <<>>]
Str(chars) == [t |-> "string", v |-> 0, s |-> chars]
Bool(b) == [t |-> "boolean", v |-> IF b THEN 1 ELSE 0, s |-> <<>>]
\* An array holding one string, [ "..." ], or no element (chars = <<>>).
Arr(chars) == [t |-> "array", v |-> 0, s |-> chars]

Digits == <<"0", "1", "2", "3", "4", "5", "6", "7", "8", "9">>
IsDigit(c) == \E d \in 1..10 : Digits[d] = c
DigitVal(c) == (CHOOSE d \in 1..10 : Digits[d] = c) - 1
IsSpace(c) == c = " "

RECURSIVE TrimLeft(_)
TrimLeft(s) == IF s # <<>> /\ IsSpace(Head(s)) THEN TrimLeft(Tail(s)) ELSE s
RECURSIVE TrimRight(_)
TrimRight(s) ==
    IF s # <<>> /\ IsSpace(s[Len(s)]) THEN TrimRight(SubSeq(s, 1, Len(s) - 1)) ELSE s
\* String.prototype.trim
Trim(s) == TrimRight(TrimLeft(s))

RECURSIVE DigitsValue(_)
\* The value of a run of decimal digits.
DigitsValue(s) ==
    IF s = <<>> THEN 0 ELSE 10 * DigitsValue(SubSeq(s, 1, Len(s) - 1)) + DigitVal(s[Len(s)])
AllDigits(s) == \A k \in 1..Len(s) : IsDigit(s[k])

\* An unsigned decimal literal with at most one digit after the point, in
\* tenths; -1 when the characters are no such literal.
UnsignedTenths(s) ==
    IF s # <<>> /\ AllDigits(s) THEN 10 * DigitsValue(s)
    ELSE IF Len(s) >= 3 /\ s[Len(s) - 1] = "." /\ IsDigit(s[Len(s)])
            /\ AllDigits(SubSeq(s, 1, Len(s) - 2))
         THEN 10 * DigitsValue(SubSeq(s, 1, Len(s) - 2)) + DigitVal(s[Len(s)])
         ELSE -1

\* Number("...") of a string: surrounding white space is dropped, the empty
\* string is 0, a decimal literal is its value, anything else is NaN.
StringToNumber(s) ==
    LET u == Trim(s)
        neg == u # <<>> /\ Head(u) = "-"
        body == IF neg THEN Tail(u) ELSE u
    IN  IF u = <<>> THEN Num(0)
        ELSE IF UnsignedTenths(body) < 0 THEN NaN
        ELSE Num(IF neg THEN 0 - UnsignedTenths(body) ELSE UnsignedTenths(body))

\* Number(x)
ToNumber(x) ==
    CASE x.t = "undefined" -> NaN
      [] x.t = "null" -> Num(0)
      [] x.t = "boolean" -> Num(10 * x.v)
      [] x.t = "string" -> StringToNumber(x.s)
      [] x.t = "array" -> StringToNumber(x.s)
      [] OTHER -> x

\* Math.floor(x) of a number
MathFloor(x) == IF x.t = "number" THEN Num(10 * (x.v \div 10)) ELSE x
\* Number.isFinite(x)
IsFinite(x) == x.t = "number"
\* x < k and x > k for a number x and an integer k (false for NaN)
NumLess(x, k) == x.t = "ninf" \/ (x.t = "number" /\ x.v < 10 * k)
NumGreater(x, k) == x.t = "inf" \/ (x.t = "number" /\ x.v > 10 * k)
\* a ?? b
Coalesce(a, b) == IF a.t \in {"undefined", "null"} THEN b ELSE a
\* Boolean(x)
Truthy(x) ==
    CASE x.t \in {"undefined", "null", "nan"} -> FALSE
      [] x.t = "number" -> x.v # 0
      [] x.t = "boolean" -> x.v = 1
      [] x.t = "string" -> x.s # <<>>
      [] OTHER -> TRUE
\* a || b
OrElse(a, b) == IF Truthy(a) THEN a ELSE b

RECURSIVE NatToChars(_)
NatToChars(n) ==
    IF n < 10 THEN <<Digits[n + 1]>> ELSE NatToChars(n \div 10) \o <<Digits[(n % 10) + 1]>>
\* String(x) of a finite number given in tenths
NumToChars(tenths) ==
    LET a == IF tenths < 0 THEN 0 - tenths ELSE tenths
        whole == NatToChars(a \div 10)
        frac == IF a % 10 = 0 THEN <<>> ELSE <<".", Digits[(a % 10) + 1]>>
    IN  (IF tenths < 0 THEN <<"-">> ELSE <<>>) \o whole \o frac

\* String(x)
ToStringChars(x) ==
    CASE x.t = "undefined" -> <<"u", "n", "d", "e", "f", "i", "n", "e", "d">>
      [] x.t = "null" -> <<"n", "u", "l", "l">>
      [] x.t = "nan" -> <<"N", "a", "N">>
      [] x.t = "inf" -> <<"I", "n", "f", "i", "n", "i", "t", "y">>
      [] x.t = "ninf" -> <<"-", "I", "n", "f", "i", "n", "i", "t", "y">>
      [] x.t = "number" -> NumToChars(x.v)
      [] x.t = "boolean" -> IF x.v = 1 THEN <<"t", "r", "u", "e">>
                            ELSE <<"f", "a", "l", "s", "e">>
      [] OTHER -> x.s

Lowers == <<"a", "c", "d", "e", "g", "i", "n", "s", "t", "u", "v">>
Uppers == <<"A", "C", "D", "E", "G", "I", "N", "S", "T", "U", "V">>
LowerChar(c) ==
    IF \E k \in 1..Len(Uppers) : Uppers[k] = c
    THEN Lowers[CHOOSE k \in 1..Len(Uppers) : Uppers[k] = c] ELSE c
UpperChar(c) ==
    IF \E k \in 1..Len(Lowers) : Lowers[k] = c
    THEN Uppers[CHOOSE k \in 1..Len(Lowers) : Lowers[k] = c] ELSE c
\* String.prototype.toLowerCase / toUpperCase
ToLowerCase(s) == [k \in 1..Len(s) |-> LowerChar(s[k])]
ToUpperCase(s) == [k \in 1..Len(s) |-> UpperChar(s[k])]

\* String literals of the program
sDev == <<"d", "e", "v">>
sStaging == <<"s", "t", "a", "g", "i", "n", "g">>
sUS == <<"U", "S">>
sCA == <<"C", "A">>
sus == <<"u", "s">>
sca == <<"c", "a">>

(* ------------------------------- state -------------------------------- *)
VARIABLES
    nextJobId,  \* the id the queue gives to the next job added
    wait,       \* the queue's wait list: ids of the jobs not yet started, oldest first
    job,        \* the job hashes kept by the queue, by id
    run,        \* per job, the locals of its running processor (createSignupAccounts)
    started,    \* the ids of the jobs in the order the worker started them
    req         \* the HTTP requests in flight at the queue server, by connection

VARIABLES
    deployment, \* which server runs: "queue" (the queue server and the worker) or "sync" (server.cjs)
    sync,       \* the locals of the synchronous POST /signup-agent handler of server.cjs
    gen,        \* the request in flight at one of the three generation routes
    kb,         \* the requests in flight at the knowledge-base routes, by connection
    dbFile,     \* the documents in the metadata file, in file order (a missing file reads as [])
    vectors,    \* the ids of the documents that have chunks in the vector store
    nextDocId,  \* the next value of uuidv4(), which never repeats
    acked,      \* the ids answered with 201 by the upload route
    removed,    \* the ids answered with 200 by the delete route
    fsFailed    \* which file operations have failed so far: [read, write]

queueVars == <<nextJobId, wait, job, run, started, req>>
syncVars == <<deployment, sync>>
genVars == <<gen>>
kbVars == <<kb, dbFile, vectors, nextDocId, acked, removed, fsFailed>>
\* What the queue server's signup routes and the worker never touch.
notQueue == <<syncVars, genVars, kbVars>>
vars == <<queueVars, syncVars, genVars, kbVars>>

JobIds == 1..MaxJobs
ReqIds == 1..MaxReq
KbIds == 1..MaxKbReq
DocIds == 1..MaxDocs

\* What the producer stores as job data.
NoData == [countToCreate |-> Undef, environment |-> Undef, region |-> Undef]
\* A job id the queue has not given out yet.
NoJob == [state |-> "none", data |-> NoData, returnvalue |-> Null, attemptsStarted |-> 0]

\* No exception
NoError == "none"
\* The locals of a processor that is not running.
IdleRun ==
    [pc |-> "idle", count |-> Undef, environment |-> Undef, region |-> Undef, i |-> 0,
     successes |-> <<>>, failures |-> <<>>, pages |-> {}, browser |-> "none",
     err |-> NoError, attempted |-> <<>>, envTarget |-> <<>>, regTarget |-> <<>>]

NoBody == [count |-> Undef, environment |-> Undef, region |-> Undef]
IdleReq ==
    [kind |-> "none", pc |-> "idle", body |-> NoBody, jobId |-> 0, data |-> NoData,
     snapshot |-> Null, threw |-> FALSE, responses |-> <<>>,
     seen |-> 0]
\* (seen is the queue's next job id when the request arrived; only the
\* properties read it.)

\* res.status(code).json(...)
Response(code, jobId, status, result) ==
    [code |-> code, json |-> TRUE, jobId |-> jobId, status |-> status, result |-> result]

\* The locals of the server.cjs handler; responses are what res.json sent.
IdleSync ==
    [pc |-> "idle", count |-> Undef, i |-> 0, successes |-> <<>>, failures |-> <<>>,
     pages |-> {}, browser |-> "none", err |-> NoError, responses |-> <<>>]

\* A generation request; events are the calls it made, in order.
IdleGen ==
    [route |-> "none", pc |-> "idle", input |-> Undef, useKnowledgeBase |-> Undef,
     finalInput |-> Undef, events |-> <<>>, responses |-> <<>>]

\* A knowledge-base request; wrote tells whether it called writeDb.
IdleKb ==
    [kind |-> "none", pc |-> "idle", docId |-> 0, file |-> "none",
     wrote |-> FALSE, stored |-> FALSE, responses |-> <<>>]

\* Everything but the choice of the server that runs.
InitState ==
    /\ nextJobId = 1
    /\ wait = <<>>
    /\ job = [j \in JobIds |-> NoJob]
    /\ run = [j \in JobIds |-> IdleRun]
    /\ started = <<>>
    /\ req = [r \in ReqIds |-> IdleReq]
    /\ sync = IdleSync
    /\ gen = IdleGen
    /\ kb = [c \in KbIds |-> IdleKb]
    /\ dbFile = <<>>
    /\ vectors = {}
    /\ nextDocId = 1
    /\ acked = {}
    /\ removed = {}
    /\ fsFailed = [read |-> FALSE, write |-> FALSE]

Init ==
    /\ InitState
    /\ deployment = "queue"

(* --------------------- POST /signup-agent (queue) ---------------------- *)
\* A mutant of PostCountRejected: the upper limit is not checked.
PostCountRejectedNoUpper(body) ==
    \/ ~IsFinite(MathFloor(ToNumber(body.count)))
    \/ NumLess(MathFloor(ToNumber(body.count)), 1)
\* A mutant of safeEnv: the environment is compared as it was sent.
safeEnvCaseSensitive(body) ==
    IF ToStringChars(Coalesce(body.environment, Str(<<"d", "e", "v">>)))
           = <<"s", "t", "a", "g", "i", "n", "g">>
    THEN <<"s", "t", "a", "g", "i", "n", "g">> ELSE <<"d", "e", "v">>
\* count = Math.floor(Number(count))
PostCount(body) == MathFloor(ToNumber(body.count))
\* The two early returns with status 400.
PostCountRejected(body) ==
    \/ ~IsFinite(PostCount(body))
    \/ NumLess(PostCount(body), 1)
    \/ NumGreater(PostCount(body), 3)
safeEnv(body) ==
    LET envNorm == ToLowerCase(ToStringChars(Coalesce(body.environment, Str(sDev))))
    IN  IF envNorm = sStaging THEN sStaging ELSE sDev
safeRegion(body) ==
    LET regionNorm == ToUpperCase(ToStringChars(Coalesce(body.region, Str(sUS))))
    IN  IF regionNorm = sCA THEN sCA ELSE sUS
\* The data of the job the handler adds.
PostJobData(body) ==
    [countToCreate |-> PostCount(body), environment |-> Str(safeEnv(body)),
     region |-> Str(safeRegion(body))]

\* Requests waiting for signupQueue.add to answer.
PendingAdds == {r \in ReqIds : req[r].kind = "post" /\ req[r].pc = "adding"}

\* The handler up to its first await: validation, then either a 400 or the
\* call of signupQueue.add.
PostSignupAgent(r, body) ==
    /\ req[r].pc = "idle"
    /\ IF PostCountRejected(body)
       THEN req' = [req EXCEPT ![r] =
                [IdleReq EXCEPT !.kind = "post", !.pc = "done", !.body = body,
                                !.seen = nextJobId,
                                !.responses = <<Response(400, 0, "", Null)>>]]
       ELSE /\ nextJobId + Cardinality(PendingAdds) <= MaxJobs
            /\ req' = [req EXCEPT ![r] =
                [IdleReq EXCEPT !.kind = "post", !.pc = "adding", !.body = body,
                                !.seen = nextJobId,
                                !.data = PostJobData(body)]]
    /\ UNCHANGED <<nextJobId, wait, job, run, started, notQueue>>

\* signupQueue.add: the queue stores the job under the next id and appends it
\* to the wait list; no job options are given.
QueueAdd(r) ==
    /\ req[r].kind = "post" /\ req[r].pc = "adding"
    /\ nextJobId \in JobIds
    /\ job' = [job EXCEPT ![nextJobId] = [NoJob EXCEPT !.state = "waiting", !.data = req[r].data]]
    /\ wait' = Append(wait, nextJobId)
    /\ nextJobId' = nextJobId + 1
    /\ req' = [req EXCEPT ![r].pc = "added", ![r].jobId = nextJobId]
    /\ UNCHANGED <<run, started, notQueue>>

\* The await resumes: res.status(202).json({ jobId: job.id })
PostRespond(r) ==
    /\ req[r].kind = "post" /\ req[r].pc = "added"
    /\ req' = [req EXCEPT ![r].pc = "done",
                          ![r].responses = Append(@, Response(202, req[r].jobId, "", Null))]
    /\ UNCHANGED <<nextJobId, wait, job, run, started, notQueue>>

\* signupQueue.add throws (the queue cannot be reached): the catch block
\* answers 500.
QueueAddFails(r) ==
    /\ req[r].kind = "post" /\ req[r].pc = "adding"
    /\ req' = [req EXCEPT ![r].pc = "done", ![r].threw = TRUE,
                          ![r].responses = Append(@, Response(500, 0, "", Null))]
    /\ UNCHANGED <<nextJobId, wait, job, run, started, notQueue>>

\* The connection of an answered or abandoned request goes away.
CloseRequest(r) ==
    /\ req[r].pc \in {"done", "rejected"}
    /\ req' = [req EXCEPT ![r] = IdleReq]
    /\ UNCHANGED <<nextJobId, wait, job, run, started, notQueue>>

(* ------------------------- worker (worker.cjs) ------------------------- *)
\* A mutant of concurrency: two jobs at a time.
concurrencyTwo == 1 + 1
\* new Worker('signup-jobs', ..., { concurrency: 1 })
concurrency == 1
\* A mutant of attempts: a job whose processor threw is tried once more.
attemptsTwo == 1 + 1
\* signupQueue.add is called without job options: one attempt per job.
attempts == 1

\* What Math.random contributes to an email address. Only the equality of
\* two draws matters, so the values drawn in a job are named 0, 1, 2 in the
\* order of their first appearance: a draw repeats an earlier value of the
\* job or is the next unused one.
RandValues(successes) == 0..Cardinality({successes[k][2] : k \in 1..Len(successes)})
Email(rand) == <<"aiqatest", rand, "@yopmail.com">>
\* The message of the error a failing UI step throws: a timeout with the page
\* still open, or the page having gone away.
StepError(pageClosed) == "Timeout"
\* A mutant of FailureEntry: the loop variable i is recorded, not i + 1.
FailureEntryLoopIndex(accountIndex, message) ==
    [accountIndex |-> accountIndex - 1,
     error |-> <<"Failed on account #", accountIndex - 1, message>>]
\* failures.push({ accountIndex: i + 1, error: errorMessage })
FailureEntry(accountIndex, message) ==
    [accountIndex |-> accountIndex, error |-> <<"Failed on account #", accountIndex, message>>]

ActiveJobs == {j \in JobIds : job[j].state = "active"}

\* The processor's reading of the job data.
WorkerCount(data) ==
    OrElse(ToNumber(Coalesce(data.countToCreate, Coalesce(Undef, Num(10)))), Num(10))
WorkerEnvironment(data) == OrElse(data.environment, Str(sDev))
WorkerRegion(data) == OrElse(data.region, Str(sUS))

\* function norm(s){ return String(s||'').toLowerCase().trim(); }
norm(x) == Trim(ToLowerCase(ToStringChars(OrElse(x, Str(<<>>)))))
\* The radio the signup flow selects on the environment screen.
wantedEnv(env) == IF norm(env) = sStaging THEN sStaging ELSE sDev
\* A mutant of wantedReg: the region is compared as the job holds it.
wantedRegAsGiven(reg) == IF ToStringChars(reg) = sca THEN sca ELSE sus
\* The radio the signup flow selects for the region.
wantedReg(reg) == IF norm(reg) = sca THEN sca ELSE sus

\* A mutant of LoopContinues: the loop never tests its bound.
LoopContinuesForever(rn) == TRUE
\* i < (count || 1)
LoopContinues(rn) ==
    LET bound == OrElse(rn.count, Num(10))
    IN  bound.t = "inf" \/ (bound.t = "number" /\ 10 * rn.i < bound.v)

\* A mutant of Dequeued: the newest waiting job is taken.
DequeuedNewest(w) == [job |-> w[Len(w)], rest |-> SubSeq(w, 1, Len(w) - 1)]
\* The job the worker takes from a non-empty wait list, and the list left:
\* jobs are added without the lifo or priority option, so it is the oldest.
Dequeued(w) == [job |-> Head(w), rest |-> Tail(w)]

\* The worker takes the oldest waiting job when it has a free slot and calls
\* the processor, which reads the job data and enters createSignupAccounts.
WorkerStart ==
    /\ wait # <<>>
    /\ Cardinality(ActiveJobs) < concurrency
    /\ LET j == Dequeued(wait).job
       IN  /\ wait' = Dequeued(wait).rest
           /\ job' = [job EXCEPT ![j].state = "active", ![j].attemptsStarted = @ + 1]
           /\ run' = [run EXCEPT ![j] =
                  [IdleRun EXCEPT !.pc = "launch",
                                  !.count = WorkerCount(job[j].data),
                                  !.environment = WorkerEnvironment(job[j].data),
                                  !.region = WorkerRegion(job[j].data)]]
           /\ started' = Append(started, j)
    /\ UNCHANGED <<nextJobId, req, notQueue>>

\* playwright.chromium.launch, before the try block.
Launch(j) ==
    /\ run[j].pc = "launch"
    /\ \/ run' = [run EXCEPT ![j].pc = "loop", ![j].browser = "open"]
       \/ run' = [run EXCEPT ![j].pc = "throw", ![j].err = "launch"]
    /\ UNCHANGED <<nextJobId, wait, job, started, req, notQueue>>

\* The loop test and browser.newPage, which is outside the inner try block.
NewPage(j) ==
    /\ run[j].pc = "loop"
    /\ LoopContinues(run[j])
    /\ \/ run' = [run EXCEPT ![j].pc = "flow",
                             ![j].pages = @ \cup {run[j].i + 1},
                             ![j].attempted = Append(@, run[j].i + 1)]
       \/ run' = [run EXCEPT ![j].pc = "closeBrowser", ![j].err = "newPage"]
    /\ UNCHANGED <<nextJobId, wait, job, started, req, notQueue>>

\* The loop test fails: the outer try block ends normally.
LoopExit(j) ==
    /\ run[j].pc = "loop"
    /\ ~LoopContinues(run[j])
    /\ run' = [run EXCEPT ![j].pc = "closeBrowser"]
    /\ UNCHANGED <<nextJobId, wait, job, started, req, notQueue>>

\* A mutant of FlowFailure: the catch block throws the error again.
FlowFailureRethrown(rn, pageClosed) ==
    [rn EXCEPT !.failures = Append(@, FailureEntry(rn.i + 1, StepError(pageClosed))),
               !.pages = IF pageClosed THEN @ \ {rn.i + 1} ELSE @,
               !.err = "step", !.pc = "closeBrowser"]
\* A UI step of the flow throws; the catch block records the failure and
\* goes on to the screenshot unless the page is closed.
FlowFailure(rn, pageClosed) ==
    [rn EXCEPT !.failures = Append(@, FailureEntry(rn.i + 1, StepError(pageClosed))),
               !.pages = IF pageClosed THEN @ \ {rn.i + 1} ELSE @,
               !.pc = IF pageClosed THEN "finally" ELSE "screenshot"]

\* The UI steps of one account, up to successes.push(email) or the throw of
\* a step.  On the environment screen the flow selects the radios
\* wantedEnv(environment) and wantedReg(region).
Flow(j) ==
    /\ run[j].pc = "flow"
    /\ \/ \E rand \in RandValues(run[j].successes) :
            run' = [run EXCEPT ![j].successes = Append(@, Email(rand)), ![j].pc = "finally",
                               ![j].envTarget = wantedEnv(run[j].environment),
                               ![j].regTarget = wantedReg(run[j].region)]
       \/ \E pageClosed \in BOOLEAN :
            run' = [run EXCEPT ![j] = FlowFailure(run[j], pageClosed)]
    /\ UNCHANGED <<nextJobId, wait, job, started, req, notQueue>>

\* page.screenshot in the catch block, inside its own try: it returns, or it
\* throws (the page may have gone away) and the error is only logged.
Screenshot(j) ==
    /\ run[j].pc = "screenshot"
    /\ \E pageClosed \in BOOLEAN :
         run' = [run EXCEPT ![j].pc = "finally",
                            ![j].pages = IF pageClosed THEN @ \ {run[j].i + 1} ELSE @]
    /\ UNCHANGED <<nextJobId, wait, job, started, req, notQueue>>

\* A mutant of FinallyClosePage: the page is left open.
FinallyLeavesPage(rn) == [rn EXCEPT !.i = @ + 1, !.pc = "loop"]
\* The inner finally block when nothing throws in it: page.close unless the
\* page is closed already, then i++.
FinallyClosePage(rn) ==
    [rn EXCEPT !.pages = @ \ {rn.i + 1}, !.i = @ + 1, !.pc = "loop"]

PageFinally(j) ==
    /\ run[j].pc = "finally"
    /\ run' = [run EXCEPT ![j] = FinallyClosePage(run[j])]
    /\ UNCHANGED <<nextJobId, wait, job, started, req, notQueue>>

\* page.close throws in the inner finally block: the exception leaves the loop.
PageCloseFails(j) ==
    /\ run[j].pc = "finally"
    /\ (run[j].i + 1) \in run[j].pages
    /\ \E closed \in BOOLEAN :
         run' = [run EXCEPT ![j].pc = "closeBrowser", ![j].err = "pageClose",
                            ![j].pages = IF closed THEN @ \ {run[j].i + 1} ELSE @]
    /\ UNCHANGED <<nextJobId, wait, job, started, req, notQueue>>

\* The outer finally block: browser.close, then the return of
\* { successes, failures } or the propagation of the pending exception.
CloseBrowser(j) ==
    /\ run[j].pc = "closeBrowser"
    /\ run' = [run EXCEPT ![j].browser = "closed", ![j].pages = {},
                          ![j].pc = IF run[j].err = NoError THEN "return" ELSE "throw"]
    /\ UNCHANGED <<nextJobId, wait, job, started, req, notQueue>>

\* browser.close throws: its exception leaves createSignupAccounts.
BrowserCloseFails(j) ==
    /\ run[j].pc = "closeBrowser"
    /\ \E closed \in BOOLEAN :
         run' = [run EXCEPT ![j].pc = "throw", ![j].err = "browserClose",
                            ![j].browser = IF closed THEN "closed" ELSE "open",
                            ![j].pages = IF closed THEN {} ELSE @]
    /\ UNCHANGED <<nextJobId, wait, job, started, req, notQueue>>

\* The processor's promise resolves: the queue records the return value and
\* moves the job to completed.
JobCompleted(j) ==
    /\ run[j].pc = "return"
    /\ job' = [job EXCEPT ![j].state = "completed",
                          ![j].returnvalue =
                              [successes |-> run[j].successes, failures |-> run[j].failures]]
    /\ run' = [run EXCEPT ![j] = IdleRun]
    /\ UNCHANGED <<nextJobId, wait, started, req, notQueue>>

\* The state a job whose processor threw moves to: back to the wait list
\* while attempts are left, failed otherwise.
StateAfterThrow(attemptsStarted) == IF attemptsStarted < attempts THEN "waiting" ELSE "failed"

\* The processor's promise rejects.
JobFailed(j) ==
    /\ run[j].pc = "throw"
    /\ job' = [job EXCEPT ![j].state = StateAfterThrow(job[j].attemptsStarted)]
    /\ wait' = IF StateAfterThrow(job[j].attemptsStarted) = "waiting" THEN Append(wait, j)
               ELSE wait
    /\ run' = [run EXCEPT ![j] = IdleRun]
    /\ UNCHANGED <<nextJobId, started, req, notQueue>>

(* ----------------------- GET /job-status/:jobId ------------------------ *)
\* A rejected promise of an async handler: the handler sends nothing.
Rejected(rq) == [rq EXCEPT !.pc = "rejected", !.threw = TRUE]

\* signupQueue.getJob(jobId): the job hash as it is now, or nothing; no job
\* is answered with 404.
StatusGetJob(r, jobId) ==
    /\ req[r].pc = "idle"
    /\ \/ /\ job[jobId].state = "none"
          /\ req' = [req EXCEPT ![r] =
                 [IdleReq EXCEPT !.kind = "status", !.pc = "done", !.jobId = jobId,
                                 !.responses = <<Response(404, jobId, "not found", Null)>>]]
       \/ /\ job[jobId].state # "none"
          /\ req' = [req EXCEPT ![r] =
                 [IdleReq EXCEPT !.kind = "status", !.pc = "getState", !.jobId = jobId,
                                 !.snapshot = job[jobId].returnvalue]]
       \/ req' = [req EXCEPT ![r] =
                 Rejected([IdleReq EXCEPT !.kind = "status", !.jobId = jobId])]
    /\ UNCHANGED <<nextJobId, wait, job, run, started, notQueue>>

\* job.getState() asks the queue for the state now; the handler then answers
\* with that state and the returnvalue of the job object it holds.
StatusResult(rq) == rq.snapshot

StatusGetState(r) ==
    /\ req[r].kind = "status" /\ req[r].pc = "getState"
    /\ \/ req' = [req EXCEPT ![r].pc = "done",
                             ![r].responses =
                                 Append(@, Response(200, req[r].jobId, job[req[r].jobId].state,
                                                    StatusResult(req[r])))]
       \/ req' = [req EXCEPT ![r] = Rejected(req[r])]
    /\ UNCHANGED <<nextJobId, wait, job, run, started, notQueue>>

(* --------------------------- specifications ---------------------------- *)
\* Request bodies of the specifications in which the worker runs: the three
\* counts the producer accepts (one of them as a string, one with an
\* environment and a region), and one it rejects.
Bodies ==
    {[count |-> Num(10), environment |-> Undef, region |-> Undef],
     [count |-> Str(<<"2">>), environment |-> Str(<<"S", "t", "a", "g", "i", "n", "g">>),
      region |-> Str(sca)],
     [count |-> Num(35), environment |-> Null, region |-> Str(sUS)],
     [count |-> Undef, environment |-> Undef, region |-> Undef]}

\* The steps of the worker process.
WorkerNext ==
    \/ WorkerStart
    \/ \E j \in JobIds : Launch(j)
    \/ \E j \in JobIds : NewPage(j)
    \/ \E j \in JobIds : LoopExit(j)
    \/ \E j \in JobIds : Flow(j)
    \/ \E j \in JobIds : Screenshot(j)
    \/ \E j \in JobIds : PageFinally(j)
    \/ \E j \in JobIds : PageCloseFails(j)
    \/ \E j \in JobIds : CloseBrowser(j)
    \/ \E j \in JobIds : BrowserCloseFails(j)
    \/ \E j \in JobIds : JobCompleted(j)
    \/ \E j \in JobIds : JobFailed(j)

\* The whole system: producer and status requests on every connection, and
\* the worker.
Next ==
    \/ \E r \in ReqIds, body \in Bodies : PostSignupAgent(r, body)
    \/ \E r \in ReqIds : QueueAdd(r)
    \/ \E r \in ReqIds : PostRespond(r)
    \/ \E r \in ReqIds : QueueAddFails(r)
    \/ \E r \in ReqIds : CloseRequest(r)
    \/ \E r \in ReqIds, jobId \in JobIds : StatusGetJob(r, jobId)
    \/ \E r \in ReqIds : StatusGetState(r)
    \/ WorkerNext

Spec == Init /\ [][Next]_vars

\* The producer, one request after the other, and the worker.
NextWorker ==
    \/ \E body \in Bodies : PostSignupAgent(1, body)
    \/ QueueAdd(1)
    \/ PostRespond(1)
    \/ QueueAddFails(1)
    \/ CloseRequest(1)
    \/ WorkerNext

SpecWorker == Init /\ [][NextWorker]_vars

\* Values of the count field of a request body.
CountInputs ==
    {Undef, Null, NaN, PosInf, NegInf, Bool(TRUE), Bool(FALSE),
     Num(0), Num(5), Num(9), Num(10), Num(25), Num(30), Num(39), Num(40), Num(-10), Num(-5),
     Str(<<>>), Str(<<"2">>), Str(<<" ", "3", " ">>), Str(<<"3", ".", "9">>),
     Str(<<"0", ".", "5">>), Str(<<"4">>), Str(<<"-", "1">>), Str(<<"1", "0">>),
     Str(<<"a", "2">>), Str(<<"2", "a">>), Arr(<<"2">>), Arr(<<>>), Arr(<<"a">>)}
\* Values of the environment field of a request body.
EnvInputs ==
    {Undef, Null, Str(sStaging), Str(<<"S", "T", "A", "G", "I", "N", "G">>),
     Str(<<"S", "t", "a", "g", "i", "n", "g">>), Str(<<" ", "s", "t", "a", "g", "i", "n", "g">>),
     Str(<<"s", "t", "a", "g", "e">>), Str(sDev), Str(<<"D", "E", "V">>), Str(<<"p", "r", "o", "d">>),
     Str(<<>>), Num(10), Bool(TRUE), Arr(sStaging)}
\* Values of the region field of a request body.
RegionInputs ==
    {Undef, Null, Str(sCA), Str(sca), Str(<<"C", "a">>), Str(<<"c", "a", " ">>),
     Str(sUS), Str(sus), Str(<<"M", "X">>), Str(<<"C", "A", "N">>), Str(<<>>), Num(10),
     Arr(sca)}
\* Request bodies of the producer's specification: every count without
\* environment and region, and every environment with every region under
\* an accepted count.
ProducerBodies ==
    {[count |-> c, environment |-> Undef, region |-> Undef] : c \in CountInputs}
        \cup {[count |-> Num(20), environment |-> e, region |-> g] :
                e \in EnvInputs, g \in RegionInputs}

\* The producer alone, one request after the other; no worker runs.
NextProducer ==
    \/ \E body \in ProducerBodies : PostSignupAgent(1, body)
    \/ QueueAdd(1)
    \/ PostRespond(1)
    \/ QueueAddFails(1)
    \/ CloseRequest(1)

SpecProducer == Init /\ [][NextProducer]_vars

(* ----------------------------- properties ------------------------------ *)
\* The number of accounts a run of createSignupAccounts is to create.
AccountsOf(rn) == OrElse(rn.count, Num(10)).v \div 10
\* The account indices a run has entered the signup flow for.
AttemptedSet(rn) == {rn.attempted[k] : k \in 1..Len(rn.attempted)}
\* The account indices recorded in a list of failures.
FailedIndices(failures) == {failures[k].accountIndex : k \in 1..Len(failures)}
\* The accounts a run has begun: i, and one more while an account is in work.
AccountsBegun(rn) == rn.i + (IF rn.pc \in {"flow", "screenshot", "finally"} THEN 1 ELSE 0)

\* C1: in createSignupAccounts a failing UI step never aborts the batch. While
\* no exception is leaving the loop, the accounts attempted so far are exactly
\* 1..k for the k accounts begun, whichever of them failed; a run that returns
\* has attempted every index 1..n; and an exception that does leave the
\* function was thrown by the browser launch, by newPage, by page.close or by
\* browser.close, never by a UI step of the flow or by the screenshot.
C1_StepFailureNeverAborts ==
    \A j \in JobIds :
        LET rn == run[j]
        IN  /\ rn.err = NoError => AttemptedSet(rn) = 1..AccountsBegun(rn)
            /\ rn.pc = "return" => AttemptedSet(rn) = 1..AccountsOf(rn)
            /\ rn.err \in {NoError, "launch", "newPage", "pageClose", "browserClose"}

\* A run of three accounts returns after its first account failed and a later
\* one succeeded, all three attempted.
C1_Witness ==
    \E j \in JobIds :
        /\ run[j].pc = "return"
        /\ AccountsOf(run[j]) = 3
        /\ 1 \in FailedIndices(run[j].failures)
        /\ run[j].successes # <<>>
        /\ run[j].attempted = <<1, 2, 3>>

\* C2: a completed job's return value is { successes, failures } in which
\* every account index 1..n (n the job's countToCreate) is accounted for once:
\* the failures carry distinct indices within 1..n, the successes are as many
\* as the indices without a failure, so both lists together have n entries.
C2_ResultAccountsForAll ==
    \A j \in JobIds :
        job[j].state = "completed" =>
            LET rv == job[j].returnvalue
                n == job[j].data.countToCreate.v \div 10
            IN  /\ rv # Null
                /\ FailedIndices(rv.failures) \subseteq 1..n
                /\ Cardinality(FailedIndices(rv.failures)) = Len(rv.failures)
                /\ Len(rv.successes) = Cardinality((1..n) \ FailedIndices(rv.failures))
                /\ Len(rv.successes) + Len(rv.failures) = n

\* A job of three accounts has completed with successes and failures.
C2_Witness ==
    \E j \in JobIds :
        /\ job[j].state = "completed"
        /\ job[j].data.countToCreate = Num(30)
        /\ job[j].returnvalue.successes # <<>>
        /\ job[j].returnvalue.failures # <<>>

StatusAnswers == {r \in ReqIds : req[r].kind = "status" /\ req[r].pc = "done"}

\* C4: whenever GET /job-status/:jobId answers with status 'completed', the
\* result of the same answer is the { successes, failures } value the worker
\* returned for the job, never null.
C4_CompletedCarriesResult ==
    \A r \in StatusAnswers :
        LET answer == req[r].responses[1]
        IN  answer.status = "completed" =>
                /\ answer.result # Null
                /\ answer.result = job[req[r].jobId].returnvalue

\* C5: jobs are started in the order in which they were added. The queue
\* numbers the jobs as it adds them, so a started job with a higher id is
\* preceded in the start order by every job with a lower id.
C5_FifoStart ==
    \A k \in 1..Len(started) :
        \A a \in JobIds :
            a < started[k] => \E m \in 1..(k - 1) : started[m] = a

\* The job added first was started first and is over; the job added second
\* has been started after it.
C5_Witness ==
    /\ started = <<1, 2>>
    /\ job[1].state \in {"completed", "failed"}
    /\ job[2].state = "active"

\* The producer requests that have been answered.
PostAnswers == {r \in ReqIds : req[r].kind = "post" /\ req[r].pc = "done"}
\* floor(Number(count)) is a finite integer between 1 and 3.
CountAccepted(count) ==
    LET c == MathFloor(ToNumber(count))
    IN  c.t = "number" /\ c.v \in {10, 20, 30}
\* The wait list in which the jobs before id n wait in the order of their ids.
WaitingBefore(n) == [k \in 1..(n - 1) |-> k]

EqualIgnoringCase(a, b) ==
    /\ Len(a) = Len(b)
    /\ \A k \in 1..Len(a) : LowerChar(a[k]) = LowerChar(b[k])
\* A field of the request body equals a word case-insensitively; an absent
\* field equals nothing, any other value is compared by its string form.
FieldIs(value, word) ==
    /\ value.t \notin {"undefined", "null"}
    /\ EqualIgnoringCase(ToStringChars(value), word)
\* The producer requests whose job has been added.
PostAdded == {r \in ReqIds : req[r].kind = "post" /\ req[r].jobId # 0}

\* C7: every job on the queue has countToCreate in {1, 2, 3}, environment in
\* {'dev', 'staging'} and region in {'US', 'CA'}; the environment is 'staging'
\* exactly when the request's environment equals 'staging' case-insensitively
\* and 'dev' otherwise (also when absent), the region is 'CA' exactly when the
\* request's region equals 'CA' case-insensitively and 'US' otherwise.
C7_JobDataNormalised ==
    /\ \A j \in JobIds :
           job[j].state # "none" =>
               /\ job[j].data.countToCreate \in {Num(10), Num(20), Num(30)}
               /\ job[j].data.environment \in {Str(sDev), Str(sStaging)}
               /\ job[j].data.region \in {Str(sUS), Str(sCA)}
    /\ \A r \in PostAdded :
           LET data == job[req[r].jobId].data
           IN  /\ data.environment =
                      IF FieldIs(req[r].body.environment, sStaging) THEN Str(sStaging)
                      ELSE Str(sDev)
               /\ data.region =
                      IF FieldIs(req[r].body.region, sCA) THEN Str(sCA) ELSE Str(sUS)
               /\ data.countToCreate = MathFloor(ToNumber(req[r].body.count))

\* A request with environment 'Staging' and region 'ca' has put a job for
\* 'staging' and 'CA' on the queue.
C7_Witness ==
    \E r \in PostAdded :
        /\ req[r].body.environment = Str(<<"S", "t", "a", "g", "i", "n", "g">>)
        /\ req[r].body.region = Str(sca)
        /\ job[req[r].jobId].data.environment = Str(sStaging)
        /\ job[req[r].jobId].data.region = Str(sCA)

\* The number of times a job has been started.
TimesStarted(j) == Cardinality({k \in 1..Len(started) : started[k] = j})

\* C8: there is no retry. Within a run no account index is attempted twice and
\* a failed account is recorded once; a job is started at most once, so a job
\* that waits has never been started and a job whose processor threw is failed
\* and is neither waiting nor running.
C8_NoRetry ==
    \A j \in JobIds :
        /\ Cardinality(AttemptedSet(run[j])) = Len(run[j].attempted)
        /\ Cardinality(FailedIndices(run[j].failures)) = Len(run[j].failures)
        /\ FailedIndices(run[j].failures) \subseteq AttemptedSet(run[j])
        /\ TimesStarted(j) <= 1
        /\ job[j].attemptsStarted = TimesStarted(j)
        /\ job[j].state = "waiting" => TimesStarted(j) = 0
        /\ job[j].state = "failed" =>
               /\ TimesStarted(j) = 1
               /\ run[j].pc = "idle"
               /\ \A k \in 1..Len(wait) : wait[k] # j

\* A job has failed, and the run of the next job goes on with its second
\* account after the first one failed.
C8_Witness ==
    \E j, k \in JobIds :
        /\ job[j].state = "failed"
        /\ run[k].pc = "flow"
        /\ run[k].i = 1
        /\ FailedIndices(run[k].failures) = {1}

\* C9: within a job the accounts are driven one after the other. At most one
\* page is open; the only page that can be open is the one of the account in
\* work, which is the case only between its newPage and the end of its finally
\* block, so the page of the next account is opened after this one is closed,
\* whether the account succeeded or failed.
C9_OnePageAtATime ==
    \A j \in JobIds :
        /\ Cardinality(run[j].pages) <= 1
        /\ run[j].pages \subseteq {run[j].i + 1}
        /\ run[j].pc \in {"loop", "return"} => run[j].pages = {}
        /\ run[j].pc = "flow" => run[j].pages = {run[j].i + 1}

\* The page of the second account is the only open page, after the first
\* account failed with its page still open.
C9_Witness ==
    \E j \in JobIds :
        /\ run[j].pc = "flow"
        /\ run[j].i = 1
        /\ run[j].pages = {2}
        /\ FailedIndices(run[j].failures) = {1}

\* The requests whose handler has ended.
HandlersEnded == {r \in ReqIds : req[r].pc \in {"done", "rejected"}}

\* C10: every request to a route handler gets exactly one response, and when
\* the external call of the handler threw, that response is a 500 JSON error.
C10_ExactlyOneResponse ==
    \A r \in HandlersEnded :
        /\ Len(req[r].responses) = 1
        /\ req[r].threw =>
               req[r].responses[1].code = 500 /\ req[r].responses[1].json

(* ------------------- the three generation routes ----------------------- *)
\* A mutant of UsesKnowledgeBase: the knowledge base is always searched.
UsesKnowledgeBaseAlways(body) == TRUE
\* if (useKnowledgeBase)
UsesKnowledgeBase(body) == Truthy(body.useKnowledgeBase)

\* The number of documents asked of the vector store.
searchK == 3

\* relevantDocs.map(doc => doc.pageContent).join('\n---\n')
RECURSIVE JoinDocs(_)
JoinDocs(docs) ==
    IF docs = <<>> THEN <<>>
    ELSE IF Len(docs) = 1 THEN <<docs[1]>>
    ELSE <<docs[1], "\n---\n">> \o JoinDocs(Tail(docs))

\* The template literal: the pieces of the augmented prompt, in order.
AugmentedPrompt(context, input) ==
    Str(<<"Based on the following context...\n\n[CONTEXT]\n">> \o context
        \o <<"\n\n[USER REQUEST]\n">> \o ToStringChars(input))

GenRoutes == {"openai", "gemini", "claude"}

\* What similaritySearch may return: at most searchK page contents.
SearchResults == {<<>>, <<"docA">>, <<"docA", "docB">>, <<"docB", "docA", "docA">>}

SearchEvent(query, result, threw) ==
    [op |-> "search", query |-> query, k |-> searchK, result |-> result,
     threw |-> threw, prompt |-> Undef]
ProviderEvent(prompt) ==
    [op |-> "provider", query |-> Undef, k |-> 0, result |-> <<>>,
     threw |-> FALSE, prompt |-> prompt]
GenResponse(code) == [code |-> code, json |-> TRUE]

\* The route is entered: 400 without input, else the prompt starts as the input.
GenPost(route, body) ==
    /\ gen.pc = "idle"
    /\ gen' = IF ~Truthy(body.input)
              THEN [gen EXCEPT !.route = route, !.pc = "done", !.input = body.input,
                               !.useKnowledgeBase = body.useKnowledgeBase,
                               !.responses = Append(@, GenResponse(400))]
              ELSE [gen EXCEPT !.route = route, !.input = body.input,
                               !.useKnowledgeBase = body.useKnowledgeBase,
                               !.finalInput = body.input,
                               !.pc = IF UsesKnowledgeBase(body) THEN "search"
                                      ELSE "provider"]
    /\ UNCHANGED <<queueVars, syncVars, kbVars>>

\* await vectorStore.similaritySearch(input, 3) returns; the prompt is augmented.
GenSearch ==
    /\ gen.pc = "search"
    /\ \E docs \in SearchResults :
          gen' = [gen EXCEPT !.events = Append(@, SearchEvent(gen.input, docs, FALSE)),
                             !.finalInput = AugmentedPrompt(JoinDocs(docs), gen.input),
                             !.pc = "provider"]
    /\ UNCHANGED <<queueVars, syncVars, kbVars>>

\* The search rejects: control passes to the route's catch.
GenSearchFails ==
    /\ gen.pc = "search"
    /\ gen' = [gen EXCEPT !.events = Append(@, SearchEvent(gen.input, <<>>, TRUE)),
                          !.pc = "catch"]
    /\ UNCHANGED <<queueVars, syncVars, kbVars>>

\* The provider is called with finalInput; it answers (res.json) or throws.
GenProvider ==
    /\ gen.pc = "provider"
    /\ \E ok \in BOOLEAN :
          gen' = [gen EXCEPT !.events = Append(@, ProviderEvent(gen.finalInput)),
                             !.pc = IF ok THEN "done" ELSE "catch",
                             !.responses = IF ok THEN Append(@, GenResponse(200)) ELSE @]
    /\ UNCHANGED <<queueVars, syncVars, kbVars>>

\* catch (error): res.status(500).json(...)
GenCatch ==
    /\ gen.pc = "catch"
    /\ gen' = [gen EXCEPT !.pc = "done", !.responses = Append(@, GenResponse(500))]
    /\ UNCHANGED <<queueVars, syncVars, kbVars>>

\* The connection ends.
GenClose ==
    /\ gen.pc = "done"
    /\ gen' = IdleGen
    /\ UNCHANGED <<queueVars, syncVars, kbVars>>

GenInputs == {Undef, Str(<<>>), Str(<<"l", "o", "g", "i", "n">>), Num(50)}
GenFlags == {Undef, Null, Bool(FALSE), Bool(TRUE), Num(0), Str(<<"f", "a", "l", "s", "e">>)}
GenBodies == {[input |-> i, useKnowledgeBase |-> f] : i \in GenInputs, f \in GenFlags}

NextGenerate ==
    \/ \E route \in GenRoutes, body \in GenBodies : GenPost(route, body)
    \/ GenSearch
    \/ GenSearchFails
    \/ GenProvider
    \/ GenCatch
    \/ GenClose

SpecGenerate == Init /\ [][NextGenerate]_vars

GenSearches == SelectSeq(gen.events, LAMBDA e : e.op = "search")
GenCalls == SelectSeq(gen.events, LAMBDA e : e.op = "provider")
\* part occurs in whole as a run of consecutive pieces.
ContainsPieces(whole, part) ==
    \E from \in 0..Len(whole) :
        /\ from + Len(part) <= Len(whole)
        /\ \A k \in 1..Len(part) : whole[from + k] = part[k]

\* C11: on each generation route, a falsy useKnowledgeBase means no search and
\* a provider prompt equal to the input; a truthy one means exactly one search
\* (input, 3) before the provider call whose prompt holds the context and the
\* input; a search that throws means no provider call and a 500.
C11_KnowledgeBaseOptIn ==
    gen.route \in GenRoutes /\ Truthy(gen.input) =>
        /\ ~Truthy(gen.useKnowledgeBase) =>
              /\ GenSearches = <<>>
              /\ \A k \in 1..Len(GenCalls) : GenCalls[k].prompt = gen.input
        /\ Truthy(gen.useKnowledgeBase) =>
              /\ Len(GenSearches) <= 1
              /\ gen.pc \in {"provider", "catch", "done"} => Len(GenSearches) = 1
              /\ \A k \in 1..Len(gen.events) :
                    gen.events[k].op = "provider" =>
                       /\ k = 2
                       /\ gen.events[1].op = "search"
                       /\ ~gen.events[1].threw
                       /\ gen.events[2].prompt.t = "string"
                       /\ ContainsPieces(gen.events[2].prompt.s,
                                         JoinDocs(gen.events[1].result))
                       /\ ContainsPieces(gen.events[2].prompt.s,
                                         ToStringChars(gen.input))
              /\ \A k \in 1..Len(GenSearches) :
                    /\ GenSearches[k].query = gen.input
                    /\ GenSearches[k].k = 3
        /\ (\E k \in 1..Len(GenSearches) : GenSearches[k].threw) =>
              /\ GenCalls = <<>>
              /\ gen.pc = "done" => gen.responses = <<GenResponse(500)>>
        /\ Len(GenCalls) <= 1
\* A request with a truthy flag has searched, called the provider and answered.
C11_Witness ==
    /\ gen.route = "gemini"
    /\ gen.useKnowledgeBase = Str(<<"f", "a", "l", "s", "e">>)
    /\ Len(gen.events) = 2
    /\ gen.events[1].result = <<"docA", "docB">>
    /\ gen.responses = <<GenResponse(200)>>

(* ------------- POST /signup-agent of server.cjs (synchronous) ---------- *)
\* for (let i = 0; i < (count || 1); i++), count as the body holds it.
SyncLoopContinues(sn) ==
    LET bound == ToNumber(OrElse(sn.count, Num(10)))
    IN  bound.t = "inf" \/ (bound.t = "number" /\ 10 * sn.i < bound.v)

\* failures.push({ accountIndex: i + 1, error: errorMessage })
SyncFailureEntry(accountIndex, message) ==
    [accountIndex |-> accountIndex,
     error |-> <<"Failed to create account #", accountIndex, message>>]

\* res.json({ success: true, successes, failures })
SyncSuccessResponse(successes, failures) ==
    [code |-> 200, success |-> TRUE, successes |-> successes, failures |-> failures]
\* res.status(500).json({ success: false, error: ... })
SyncCriticalResponse ==
    [code |-> 500, success |-> FALSE, successes |-> <<>>, failures |-> <<>>]

\* The handler is entered: const { count } = req.body.
SyncPost(body) ==
    /\ deployment = "sync"
    /\ sync.pc = "idle"
    /\ sync' = [sync EXCEPT !.pc = "launch", !.count = body.count]
    /\ UNCHANGED <<deployment, queueVars, genVars, kbVars>>

\* await playwright.chromium.launch(...), before the try statement: a
\* rejection leaves the handler at once.
SyncLaunch ==
    /\ sync.pc = "launch"
    /\ \/ sync' = [sync EXCEPT !.pc = "loop", !.browser = "open"]
       \/ sync' = [sync EXCEPT !.pc = "rejected", !.err = "launch"]
    /\ UNCHANGED <<deployment, queueVars, genVars, kbVars>>

\* await browser.newPage(), inside the outer try and before the inner one.
SyncNewPage ==
    /\ sync.pc = "loop"
    /\ SyncLoopContinues(sync)
    /\ \/ sync' = [sync EXCEPT !.pc = "flow", !.pages = @ \cup {sync.i + 1}]
       \/ sync' = [sync EXCEPT !.pc = "outerCatch", !.err = "newPage"]
    /\ UNCHANGED <<deployment, queueVars, genVars, kbVars>>

\* The inner try: the UI steps, successes.push(email), page.close().  A step
\* may throw before the push, and page.close() may throw after it; both land
\* in the inner catch, which pushes to failures.
SyncFlow ==
    /\ sync.pc = "flow"
    /\ \/ \E rand \in RandValues(sync.successes) :
             sync' = [sync EXCEPT !.successes = Append(@, Email(rand)),
                                  !.pages = @ \ {sync.i + 1},
                                  !.i = @ + 1, !.pc = "loop"]
       \/ \E pageClosed \in BOOLEAN :
             sync' = [sync EXCEPT
                        !.failures = Append(@, SyncFailureEntry(sync.i + 1,
                                                                StepError(pageClosed))),
                        !.pages = IF pageClosed THEN @ \ {sync.i + 1} ELSE @,
                        !.pc = "catch"]
       \/ \E rand \in RandValues(sync.successes), pageClosed \in BOOLEAN :
             sync' = [sync EXCEPT
                        !.successes = Append(@, Email(rand)),
                        !.failures = Append(@, SyncFailureEntry(sync.i + 1, "pageClose")),
                        !.pages = IF pageClosed THEN @ \ {sync.i + 1} ELSE @,
                        !.pc = "catch"]
    /\ UNCHANGED <<deployment, queueVars, genVars, kbVars>>

\* The rest of the inner catch: if (!page.isClosed()) { screenshot; close }.
\* Neither call is guarded, so a throw of either reaches the outer catch.
SyncCatch ==
    /\ sync.pc = "catch"
    /\ IF sync.i + 1 \notin sync.pages
       THEN sync' = [sync EXCEPT !.i = @ + 1, !.pc = "loop"]
       ELSE \/ sync' = [sync EXCEPT !.pages = @ \ {sync.i + 1}, !.i = @ + 1,
                                    !.pc = "loop"]
            \/ sync' = [sync EXCEPT !.pc = "outerCatch", !.err = "screenshot"]
            \/ \E closed \in BOOLEAN :
                  sync' = [sync EXCEPT !.pc = "outerCatch", !.err = "pageClose",
                                       !.pages = IF closed THEN @ \ {sync.i + 1} ELSE @]
    /\ UNCHANGED <<deployment, queueVars, genVars, kbVars>>

\* The loop has ended: res.json({ success: true, successes, failures }).
SyncRespond ==
    /\ sync.pc = "loop"
    /\ ~SyncLoopContinues(sync)
    /\ sync' = [sync EXCEPT
                  !.responses = Append(@, SyncSuccessResponse(sync.successes,
                                                              sync.failures)),
                  !.pc = "finally"]
    /\ UNCHANGED <<deployment, queueVars, genVars, kbVars>>

\* The outer catch: res.status(500).json({ success: false, ... }).
SyncOuterCatch ==
    /\ sync.pc = "outerCatch"
    /\ sync' = [sync EXCEPT !.responses = Append(@, SyncCriticalResponse),
                            !.pc = "finally"]
    /\ UNCHANGED <<deployment, queueVars, genVars, kbVars>>

\* A mutant of SyncFinally: the finally block does not close the browser.
SyncFinallySkipped ==
    /\ sync.pc = "finally"
    /\ sync' = [sync EXCEPT !.pc = "done"]
    /\ UNCHANGED <<deployment, queueVars, genVars, kbVars>>
\* finally { if (browser) await browser.close() }: the browser and its pages
\* are closed, or the call throws and the handler's promise rejects.
SyncFinally ==
    /\ sync.pc = "finally"
    /\ \/ sync' = [sync EXCEPT !.browser = "closed", !.pages = {}, !.pc = "done"]
       \/ \E closed \in BOOLEAN :
             sync' = [sync EXCEPT !.pc = "rejected", !.err = "browserClose",
                                  !.browser = IF closed THEN "closed" ELSE "open",
                                  !.pages = IF closed THEN {} ELSE @]
    /\ UNCHANGED <<deployment, queueVars, genVars, kbVars>>

\* The connection ends, answered or not.
SyncEnd ==
    /\ sync.pc \in {"done", "rejected"}
    /\ sync' = IdleSync
    /\ UNCHANGED <<deployment, queueVars, genVars, kbVars>>

SyncBodies == {[count |-> c] : c \in {Undef, Num(10), Num(20), Str(<<"2">>)}}

NextSync ==
    \/ \E body \in SyncBodies : SyncPost(body)
    \/ SyncLaunch
    \/ SyncNewPage
    \/ SyncFlow
    \/ SyncCatch
    \/ SyncRespond
    \/ SyncOuterCatch
    \/ SyncFinally
    \/ SyncEnd

InitSync ==
    /\ InitState
    /\ deployment = "sync"

SpecSync == InitSync /\ [][NextSync]_vars

(* ---- both signup implementations: the queue with its worker, or ------- *)
(* ---- server.cjs, whichever server is deployed ------------------------- *)
InitBrowsers ==
    /\ InitState
    /\ deployment \in {"queue", "sync"}

NextBrowsers ==
    \/ deployment = "queue" /\ NextWorker
    \/ NextSync

SpecBrowsers == InitBrowsers /\ [][NextBrowsers]_vars

\* createSignupAccounts has been left after a launch that succeeded.
WorkerExited(rn) == rn.pc \in {"return", "throw"} /\ rn.err # "launch"
\* The server.cjs handler has been left after a launch that succeeded.
SyncExited == sync.pc \in {"done", "rejected"} /\ sync.err # "launch"

SyncEnded == sync.pc \in {"done", "rejected"}

\* C13: in server.cjs a major failure, such as the browser failing to
\* launch, is handled by the outer catch: the request is answered 500 with
\* { success: false, error }.
C13_LaunchFailureAnswered ==
    SyncEnded /\ sync.err \in {"launch", "newPage", "screenshot", "pageClose"} =>
        sync.responses = <<SyncCriticalResponse>>

\* The number of accounts asked for: a positive integer, or 1 when absent.
SyncAccounts == IF sync.count.t = "number" THEN sync.count.v \div 10 ELSE 1

\* C14: in server.cjs one account's failure never stops the whole process:
\* for a positive integer count n (1 when absent), once the browser has
\* launched the handler answers { success: true, successes, failures } with
\* n entries in the two lists together.
C14_EveryAccountReported ==
    SyncEnded /\ sync.err # "launch" /\ sync.count.t \in {"number", "undefined"} =>
        /\ Len(sync.responses) = 1
        /\ sync.responses[1].success
        /\ Len(sync.responses[1].successes) + Len(sync.responses[1].failures)
              = SyncAccounts

\* The emails a result recorded for a job holds (none when there is no result).
ReportedEmails(returnvalue) ==
    IF returnvalue = Null THEN {}
    ELSE {returnvalue.successes[m] : m \in 1..Len(returnvalue.successes)}

\* C15: no created account goes unreported: when a job leaves the active
\* state, every email its run has pushed to successes is in the result
\* recorded for the job, whatever failed for the later accounts.
C15_NoCreatedAccountUnreported ==
    [][\A j \in JobIds :
          job[j].state = "active" /\ job'[j].state \in {"completed", "failed"} =>
             \A k \in 1..Len(run[j].successes) :
                run[j].successes[k] \in ReportedEmails(job'[j].returnvalue)]_vars

(* ----------------- the worker under a fair scheduler ------------------- *)
\* The worker process keeps running: a step of the worker that stays
\* possible is eventually taken (every awaited call resolves or rejects).
SpecWorkerFair == SpecWorker /\ WF_vars(WorkerNext)

JobEnded(j) == job[j].state \in {"completed", "failed"}

\* C16: every job the producer has added eventually reaches completed or
\* failed; a run performs at most count loop iterations; and a job that is
\* completed or failed never changes again.
C16_EveryJobEnds ==
    /\ \A j \in JobIds : (job[j].state \in {"waiting", "active"}) ~> JobEnded(j)
    /\ [](\A j \in JobIds :
             /\ Len(run[j].attempted) <= AccountsOf(run[j])
             /\ run[j].i <= AccountsOf(run[j]))
    /\ [][\A j \in JobIds : JobEnded(j) => job'[j] = job[j]]_vars
\* Both jobs have ended, the first with a result for its three accounts.
C16_Witness ==
    /\ job[1].state = "completed"
    /\ Len(job[1].returnvalue.successes) + Len(job[1].returnvalue.failures) = 3
    /\ JobEnded(2)

(* ---------------------- the knowledge-base routes ---------------------- *)
\* readDb(): the parsed file, or [] when reading or parsing throws.
ReadDb(readOk) == IF readOk THEN dbFile ELSE <<>>
\* writeDb(data): the file after the call; a throw of writeFileSync is swallowed.
WriteDb(data, writeOk) == IF writeOk THEN data ELSE dbFile
\* { id: docId, name: docName }
DocEntry(docId) == [id |-> docId, name |-> "doc.txt"]
\* documents.filter(doc => doc.id !== docId)
FilterOut(documents, docId) == SelectSeq(documents, LAMBDA doc : doc.id # docId)
KbResponse(code, documents) == [code |-> code, documents |-> documents]
\* The ghost record of failed file operations after one read and one write.
FsAfter(readOk, writeOk) ==
    [read |-> fsFailed.read \/ ~readOk, write |-> fsFailed.write \/ ~writeOk]

\* What a client may send as the document: nothing, a file without text, a
\* file with text, a file whose parser throws.
UploadFiles == {"none", "empty", "text", "broken"}
\* A mutant of UploadRejected: the extracted text is not examined.
UploadRejectedFileOnly(file) == file = "none"
\* The two early returns with status 400.
UploadRejected(file) == file \in {"none", "empty"}

\* POST /api/knowledge/upload up to the awaited vector-store call: 400
\* without file or text, docId = uuidv4(), a throwing parser goes to catch.
KbUpload(c, file) ==
    /\ kb[c].pc = "idle"
    /\ file # "none" => nextDocId <= MaxDocs
    /\ kb' = [kb EXCEPT ![c] =
                [@ EXCEPT !.kind = "upload", !.file = file,
                          !.docId = IF file = "none" THEN 0 ELSE nextDocId,
                          !.pc = IF UploadRejected(file) THEN "done"
                                 ELSE IF file = "broken" THEN "catch" ELSE "store",
                          !.responses = IF UploadRejected(file)
                                        THEN Append(@, KbResponse(400, <<>>)) ELSE @]]
    /\ nextDocId' = IF file = "none" THEN nextDocId ELSE nextDocId + 1
    /\ UNCHANGED <<dbFile, vectors, acked, removed, fsFailed, queueVars, syncVars, genVars>>

\* await PineconeStore.fromDocuments(...) resolves.
KbStore(c) ==
    /\ kb[c].pc = "store"
    /\ vectors' = vectors \cup {kb[c].docId}
    /\ kb' = [kb EXCEPT ![c].pc = "save", ![c].stored = TRUE]
    /\ UNCHANGED <<dbFile, nextDocId, acked, removed, fsFailed, queueVars, syncVars, genVars>>

\* fromDocuments rejects, with some or none of the chunks written.
KbStoreFails(c) ==
    /\ kb[c].pc = "store"
    /\ vectors' \in {vectors, vectors \cup {kb[c].docId}}
    /\ kb' = [kb EXCEPT ![c].pc = "catch"]
    /\ UNCHANGED <<dbFile, nextDocId, acked, removed, fsFailed, queueVars, syncVars, genVars>>

\* The continuation of the upload, which runs without an await: readDb(),
\* push, writeDb(), res.status(201).
KbSave(c) ==
    /\ kb[c].pc = "save"
    /\ \E readOk \in BOOLEAN, writeOk \in BOOLEAN :
          /\ dbFile' = WriteDb(Append(ReadDb(readOk), DocEntry(kb[c].docId)), writeOk)
          /\ fsFailed' = FsAfter(readOk, writeOk)
    /\ acked' = acked \cup {kb[c].docId}
    /\ kb' = [kb EXCEPT ![c].pc = "done", ![c].wrote = TRUE,
                        ![c].responses = Append(@, KbResponse(201, <<DocEntry(kb[c].docId)>>))]
    /\ UNCHANGED <<vectors, nextDocId, removed, queueVars, syncVars, genVars>>

\* catch (error): res.status(500) of the upload and of the delete route.
KbCatch(c) ==
    /\ kb[c].pc = "catch"
    /\ kb' = [kb EXCEPT ![c].pc = "done",
                        ![c].responses = Append(@, KbResponse(500, <<>>))]
    /\ UNCHANGED <<dbFile, vectors, nextDocId, acked, removed, fsFailed,
                   queueVars, syncVars, genVars>>

\* DELETE /api/knowledge/:docId is entered, for an id a client has been given.
KbDelete(c, docId) ==
    /\ kb[c].pc = "idle"
    /\ docId \in acked
    /\ kb' = [kb EXCEPT ![c].kind = "delete", ![c].docId = docId, ![c].pc = "deleteMany"]
    /\ UNCHANGED <<dbFile, vectors, nextDocId, acked, removed, fsFailed,
                   queueVars, syncVars, genVars>>

\* await pineconeIndex.deleteMany({ docId }) resolves.
KbDeleteMany(c) ==
    /\ kb[c].pc = "deleteMany"
    /\ vectors' = vectors \ {kb[c].docId}
    /\ kb' = [kb EXCEPT ![c].pc = "filter", ![c].stored = TRUE]
    /\ UNCHANGED <<dbFile, nextDocId, acked, removed, fsFailed, queueVars, syncVars, genVars>>

\* deleteMany rejects.
KbDeleteManyFails(c) ==
    /\ kb[c].pc = "deleteMany"
    /\ kb' = [kb EXCEPT ![c].pc = "catch"]
    /\ UNCHANGED <<dbFile, vectors, nextDocId, acked, removed, fsFailed,
                   queueVars, syncVars, genVars>>

\* The continuation of the delete: readDb(), filter, writeDb(), res.status(200).
KbFilter(c) ==
    /\ kb[c].pc = "filter"
    /\ \E readOk \in BOOLEAN, writeOk \in BOOLEAN :
          /\ dbFile' = WriteDb(FilterOut(ReadDb(readOk), kb[c].docId), writeOk)
          /\ fsFailed' = FsAfter(readOk, writeOk)
    /\ removed' = removed \cup {kb[c].docId}
    /\ kb' = [kb EXCEPT ![c].pc = "done", ![c].wrote = TRUE,
                        ![c].responses = Append(@, KbResponse(200, <<>>))]
    /\ UNCHANGED <<vectors, nextDocId, acked, queueVars, syncVars, genVars>>

\* GET /api/knowledge: res.json({ documents: readDb() }), without an await.
KbList(c) ==
    /\ kb[c].pc = "idle"
    /\ \E readOk \in BOOLEAN :
          /\ kb' = [kb EXCEPT ![c].kind = "list", ![c].pc = "done",
                              ![c].responses = Append(@, KbResponse(200, ReadDb(readOk)))]
          /\ fsFailed' = FsAfter(readOk, TRUE)
    /\ UNCHANGED <<dbFile, vectors, nextDocId, acked, removed, queueVars, syncVars, genVars>>

\* The connection ends.
KbClose(c) ==
    /\ kb[c].pc = "done"
    /\ kb' = [kb EXCEPT ![c] = IdleKb]
    /\ UNCHANGED <<dbFile, vectors, nextDocId, acked, removed, fsFailed,
                   queueVars, syncVars, genVars>>

NextKb ==
    \/ \E c \in KbIds, file \in UploadFiles : KbUpload(c, file)
    \/ \E c \in KbIds : KbStore(c)
    \/ \E c \in KbIds : KbStoreFails(c)
    \/ \E c \in KbIds : KbSave(c)
    \/ \E c \in KbIds : KbCatch(c)
    \/ \E c \in KbIds, docId \in DocIds : KbDelete(c, docId)
    \/ \E c \in KbIds : KbDeleteMany(c)
    \/ \E c \in KbIds : KbDeleteManyFails(c)
    \/ \E c \in KbIds : KbFilter(c)
    \/ \E c \in KbIds : KbList(c)
    \/ \E c \in KbIds : KbClose(c)

SpecKb == Init /\ [][NextKb]_vars

\* The ids GET /api/knowledge lists when it can read the file.
ListedIds == {dbFile[k].id : k \in 1..Len(dbFile)}

\* C17: no metadata update is lost within one server process: as long as
\* every file write has succeeded, GET /api/knowledge lists exactly the ids
\* uploaded with success minus the ids deleted with success, each once.
C17_NoLostMetadataUpdate ==
    ~fsFailed.write =>
        /\ ListedIds = acked \ removed
        /\ Len(dbFile) = Cardinality(ListedIds)

\* C18: the vector store is written before the metadata: a request writes
\* the file only after its vector-store call has returned; a request
\* answered 500 or 400 has written nothing; an upload without a file or
\* without text is answered 400 and has touched neither store.
C18_VectorStoreFirst ==
    \A c \in KbIds :
        /\ kb[c].wrote => kb[c].stored
        /\ kb[c].pc = "catch" => ~kb[c].wrote
        /\ \A k \in 1..Len(kb[c].responses) :
              kb[c].responses[k].code \in {400, 500} => ~kb[c].wrote
        /\ kb[c].kind = "upload" /\ kb[c].file \in {"none", "empty"} =>
              /\ kb[c].responses = <<KbResponse(400, <<>>)>>
              /\ ~kb[c].wrote
              /\ ~kb[c].stored
        /\ kb[c].kind \in {"upload", "delete"} /\ kb[c].pc = "done" /\ ~kb[c].stored =>
              /\ Len(kb[c].responses) = 1
              /\ kb[c].responses[1].code \in {400, 500}
\* An upload was answered 500 after the vector store failed, while a
\* document uploaded before is still the only one listed.
C18_Witness ==
    \E c \in KbIds :
        /\ kb[c].kind = "upload"
        /\ kb[c].file = "text"
        /\ kb[c].responses = <<KbResponse(500, <<>>)>>
        /\ kb[c].docId = 2
        /\ ListedIds = {1}

\* C19: a 201 means the document is recorded: every id answered with 201
\* and not yet deleted with success is listed by GET /api/knowledge.
C19_AckedIsListed ==
    \A d \in acked \ removed : d \in ListedIds

\* C20: producer and worker agree on the job parameters: the worker's
\* reading of an enqueued job gives the enqueued count, which is the number
\* of accounts attempted; wantedEnv gives the enqueued environment and
\* wantedReg the enqueued region, letter case aside; job data without these
\* fields is read as 1 account, 'dev' and 'US'.
C20_ProducerWorkerAgree ==
    /\ \A j \in JobIds :
          run[j].pc # "idle" =>
             /\ run[j].count = job[j].data.countToCreate
             /\ 10 * AccountsOf(run[j]) = job[j].data.countToCreate.v
             /\ run[j].pc = "return" =>
                   run[j].attempted = [k \in 1..AccountsOf(run[j]) |-> k]
             /\ wantedEnv(run[j].environment) = job[j].data.environment.s
             /\ EqualIgnoringCase(wantedReg(run[j].region), job[j].data.region.s)
             /\ run[j].successes # <<>> =>
                   /\ run[j].envTarget = job[j].data.environment.s
                   /\ EqualIgnoringCase(run[j].regTarget, job[j].data.region.s)
    /\ WorkerCount(NoData) = Num(10)
    /\ WorkerEnvironment(NoData) = Str(sDev)
    /\ WorkerRegion(NoData) = Str(sUS)
\* The job enqueued for { count: "2", environment: "Staging", region: "ca" }
\* has returned after both accounts were created on staging, region CA.
C20_Witness ==
    \E j \in JobIds :
        /\ run[j].pc = "return"
        /\ job[j].data.environment = Str(sStaging)
        /\ job[j].data.region = Str(sCA)
        /\ Len(run[j].successes) = 2
        /\ run[j].regTarget = sca
====
